---- MODULE Spec2Model ----
(***************************************************************************)
(* Partition gap checker (missing_date.py).                                *)
(*                                                                         *)
(* The program reads result.txt, splits it into tables of raw partition    *)
(* rows (parse_result_file), builds a PartitionChecker per table, finds    *)
(* the missing calendar days, groups them and renders one ALTER TABLE ...  *)
(* REORGANIZE PARTITION command per group (main).                          *)
(*                                                                         *)
(* Text is modelled at token level: a line is the sequence of its          *)
(* whitespace separated tokens (what line.split() returns), a token is a   *)
(* string.  A datetime is the number of seconds since 2025-01-01 00:00:00. *)
(***************************************************************************)
EXTENDS Integers, Sequences, FiniteSets

VARIABLES
    pc,                 \* position of the run
    raw,                \* partition_data handed to PartitionChecker.__init__
    partitions,         \* self.partitions
    missing_dates,      \* what find_missing_dates / display_report returned
    arg,                \* the list handed to group_/generate_reorganize_commands
    groups,             \* what group_consecutive_dates returned
    picks,              \* per group: before_partition / after_partition found
    sql_commands,       \* what generate_reorganize_commands returned
    file_state,         \* result.txt: "ok", "missing" or "unreadable"
    lines,              \* the lines of result.txt
    tables_data,        \* dict of parse_result_file, in insertion order
    next_table,         \* position of main's for loop in tables_data
    processed,          \* table names in the order main handled them
    tables_with_issues, \* main's counter
    all_sql_commands,   \* main's list of written commands
    exit_status         \* process exit status, -1 while running

vars == <<pc, raw, partitions, missing_dates, arg, groups, picks, sql_commands,
          file_state, lines, tables_data, next_table, processed,
          tables_with_issues, all_sql_commands, exit_status>>

checker_vars == <<raw, partitions, missing_dates, arg, groups, picks, sql_commands>>

main_vars == <<file_state, lines, tables_data, next_table, processed, exit_status>>

(***************************************************************************)
(* Bounds of the model.                                                    *)
(***************************************************************************)
MaxRows == 3

MaxDates == 3

MaxLines == 5

(***************************************************************************)
(* datetime: strptime, timedelta, strftime, timestamp.                     *)
(***************************************************************************)
\* timedelta(days=1), in seconds
OneDay == 86400

\* an optional value is a sequence of length 0 (Python's None, or the raised
\* ValueError of a conversion) or 1
None == <<>>

Some(v) == <<v>>

\* the characters of a YYYY-MM-DD token read as numbers: <<year, month, day>>
DateFields(tok) ==
    CASE tok = "2025-01-30" -> <<2025, 1, 30>>
      [] tok = "2025-01-31" -> <<2025, 1, 31>>
      [] tok = "2025-02-01" -> <<2025, 2, 1>>
      [] tok = "2025-02-02" -> <<2025, 2, 2>>
      [] tok = "2025-02-03" -> <<2025, 2, 3>>
      [] tok = "2025-02-30" -> <<2025, 2, 30>>
      [] OTHER -> <<>>

\* the characters of a HH:MM:SS token read as numbers: <<hour, minute, second>>
TimeFields(tok) ==
    CASE tok = "00:00:00" -> <<0, 0, 0>>
      [] tok = "12:00:00" -> <<12, 0, 0>>
      [] OTHER -> <<>>

\* days of each month of 2025 (not a leap year)
DaysInMonth(m) ==
    CASE m = 2 -> 28
      [] m \in {4, 6, 9, 11} -> 30
      [] OTHER -> 31

RECURSIVE DaysBeforeMonth(_)
DaysBeforeMonth(m) == IF m <= 1 THEN 0 ELSE DaysBeforeMonth(m - 1) + DaysInMonth(m - 1)

\* datetime.strptime(s, "%Y-%m-%d %H:%M:%S"): s is <<date token, time token>>;
\* None stands for the ValueError
strptime(s) ==
    LET d == DateFields(s[1])
        t == TimeFields(s[2])
    IN  IF d = <<>> \/ t = <<>> THEN None
        ELSE IF d[1] # 2025 \/ d[2] \notin 1..12 THEN None
        ELSE IF d[3] \notin 1..DaysInMonth(d[2]) THEN None
        ELSE IF t[1] \notin 0..23 \/ t[2] \notin 0..59 \/ t[3] \notin 0..59 THEN None
        ELSE Some((DaysBeforeMonth(d[2]) + d[3] - 1) * OneDay
                  + t[1] * 3600 + t[2] * 60 + t[3])

RECURSIVE MonthOfOrdinal(_, _)
MonthOfOrdinal(ord, m) ==
    IF ord < DaysBeforeMonth(m + 1) THEN m ELSE MonthOfOrdinal(ord, m + 1)

\* date.strftime('%Y%m%d'), the eight digits read as one number
strftime_Ymd(date) ==
    LET ord == date \div OneDay
        m   == MonthOfOrdinal(ord, 1)
    IN  2025 * 10000 + m * 100 + (ord - DaysBeforeMonth(m) + 1)

\* the calendar day of a datetime (datetime.date())
DayOf(date) == date \div OneDay

\* int(date.timestamp()): seconds since the epoch (2025-01-01 is 1735689600)
timestamp(date) == 1735689600 + date

\* int(tok); None stands for the ValueError
int(tok) ==
    CASE tok = "0"    -> Some(0)
      [] tok = "1"    -> Some(1)
      [] tok = "100"  -> Some(100)
      [] tok = "0200" -> Some(200)
      [] OTHER -> None

(***************************************************************************)
(* class PartitionChecker                                                  *)
(***************************************************************************)
\* the try block of __init__ for one row: the record appended, or None when
\* strptime or int raised ValueError and the row is skipped
parse_row(row) ==
    IF strptime(row[1]) = None \/ int(row[2]) = None
       \/ int(row[3]) = None \/ int(row[4]) = None
    THEN None
    ELSE Some([date     |-> strptime(row[1])[1],
               unix_ts  |-> int(row[2])[1],
               ordinal  |-> int(row[3])[1],
               rows     |-> int(row[4])[1]])

RECURSIVE append_rows(_)
append_rows(partition_data) ==
    IF partition_data = <<>> THEN <<>>
    ELSE LET n == Len(partition_data)
         IN  append_rows(SubSeq(partition_data, 1, n - 1)) \o parse_row(partition_data[n])

\* list.sort(key=date) is stable: p goes behind every record whose date is
\* not greater than its own
RECURSIVE insert_by_date(_, _)
insert_by_date(sorted, p) ==
    IF sorted = <<>> THEN <<p>>
    ELSE IF sorted[Len(sorted)]["date"] <= p["date"] THEN Append(sorted, p)
    ELSE Append(insert_by_date(SubSeq(sorted, 1, Len(sorted) - 1), p), sorted[Len(sorted)])

RECURSIVE sort_by_date(_)
sort_by_date(ps) ==
    IF ps = <<>> THEN <<>>
    ELSE insert_by_date(sort_by_date(SubSeq(ps, 1, Len(ps) - 1)), ps[Len(ps)])

\* __init__ without its sort
PartitionChecker_unsorted(partition_data) == append_rows(partition_data)

\* PartitionChecker.__init__: self.partitions
PartitionChecker(partition_data) == sort_by_date(append_rows(partition_data))

\* the inner while loop with "<=" for "<"
RECURSIVE step_days_inclusive(_, _)
step_days_inclusive(expected_next, next_date) ==
    IF expected_next <= next_date
    THEN <<expected_next>> \o step_days_inclusive(expected_next + OneDay, next_date)
    ELSE <<>>

\* the inner while loop of find_missing_dates
RECURSIVE step_days(_, _)
step_days(expected_next, next_date) ==
    IF expected_next < next_date
    THEN <<expected_next>> \o step_days(expected_next + OneDay, next_date)
    ELSE <<>>

\* the for loop of find_missing_dates, from index i on
RECURSIVE missing_from(_, _)
missing_from(ps, i) ==
    IF i > Len(ps) - 1 THEN <<>>
    ELSE step_days(ps[i]["date"] + OneDay, ps[i + 1]["date"]) \o missing_from(ps, i + 1)

find_missing_dates(ps) == IF Len(ps) < 2 THEN <<>> ELSE missing_from(ps, 1)

\* "p" + strftime('%Y%m%d')
generate_partition_name(date) == <<"p", strftime_Ymd(date)>>

\* the for loop with "<=" for "==": dates at most one day apart are grouped
RECURSIVE group_loop_within_a_day(_, _, _, _)
group_loop_within_a_day(dates, done, current_group, i) ==
    IF i > Len(dates) THEN Append(done, current_group)
    ELSE IF dates[i] - current_group[Len(current_group)] <= OneDay
         THEN group_loop_within_a_day(dates, done, Append(current_group, dates[i]), i + 1)
         ELSE group_loop_within_a_day(dates, Append(done, current_group), <<dates[i]>>, i + 1)

\* the for loop of group_consecutive_dates: groups closed so far, the
\* current group, next index
RECURSIVE group_loop(_, _, _, _)
group_loop(dates, done, current_group, i) ==
    IF i > Len(dates) THEN Append(done, current_group)
    ELSE IF dates[i] - current_group[Len(current_group)] = OneDay
         THEN group_loop(dates, done, Append(current_group, dates[i]), i + 1)
         ELSE group_loop(dates, Append(done, current_group), <<dates[i]>>, i + 1)

group_consecutive_dates(dates) ==
    IF dates = <<>> THEN <<>> ELSE group_loop(dates, <<>>, <<dates[1]>>, 2)

\* one PARTITION line of the command text
partition_line(name, bound) == [name |-> name, less_than |-> bound, engine |-> "InnoDB"]

missing_lines(dates) ==
    [k \in 1..Len(dates) |->
        partition_line(generate_partition_name(dates[k]), timestamp(dates[k]))]

\* the statement with the bound of before_part on its last line
create_reorganize_command_before_bound(table_name, before_part, after_part, dates) ==
    [head       |-> "ALTER TABLE",
     table      |-> table_name,
     reorganize |-> generate_partition_name(after_part["date"]),
     into       |-> Append(missing_lines(dates),
                           partition_line(generate_partition_name(after_part["date"]),
                                          before_part["unix_ts"]))]

\* the text of the ALTER TABLE statement, by its parts
create_reorganize_command(table_name, before_part, after_part, dates) ==
    [head       |-> "ALTER TABLE",
     table      |-> table_name,
     reorganize |-> generate_partition_name(after_part["date"]),
     into       |-> Append(missing_lines(dates),
                           partition_line(generate_partition_name(after_part["date"]),
                                          after_part["unix_ts"]))]

\* the scan with "<=" for "<": a partition on the first date of the group
\* counts as lying before it
RECURSIVE surrounding_inclusive(_, _, _, _, _)
surrounding_inclusive(ps, start_date, end_date, i, before) ==
    IF i > Len(ps) THEN [before |-> before, after |-> None]
    ELSE IF ps[i]["date"] <= start_date
         THEN surrounding_inclusive(ps, start_date, end_date, i + 1, Some(ps[i]))
    ELSE IF ps[i]["date"] > end_date
         THEN [before |-> before, after |-> Some(ps[i])]
    ELSE surrounding_inclusive(ps, start_date, end_date, i + 1, before)

\* the scan "for p in self.partitions" of generate_reorganize_commands from
\* index i on, with the values before_partition and after_partition hold
RECURSIVE surrounding(_, _, _, _, _)
surrounding(ps, start_date, end_date, i, before) ==
    IF i > Len(ps) THEN [before |-> before, after |-> None]
    ELSE IF ps[i]["date"] < start_date
         THEN surrounding(ps, start_date, end_date, i + 1, Some(ps[i]))
    ELSE IF ps[i]["date"] > end_date
         THEN [before |-> before, after |-> Some(ps[i])]
    ELSE surrounding(ps, start_date, end_date, i + 1, before)

\* before_partition and after_partition of every group
find_surrounding(ps, gs) ==
    [k \in 1..Len(gs) |-> surrounding(ps, gs[k][1], gs[k][Len(gs[k])], 1, None)]

RECURSIVE commands_for(_, _, _, _)
commands_for(table_name, gs, found, k) ==
    IF k > Len(gs) THEN <<>>
    ELSE (IF found[k]["before"] # None /\ found[k]["after"] # None
          THEN <<create_reorganize_command(table_name, found[k]["before"][1],
                                           found[k]["after"][1], gs[k])>>
          ELSE <<>>)
         \o commands_for(table_name, gs, found, k + 1)

generate_reorganize_commands(table_name, ps, dates) ==
    IF dates = <<>> THEN <<>>
    ELSE LET gs == group_consecutive_dates(dates)
         IN  commands_for(table_name, gs, find_surrounding(ps, gs), 1)

(***************************************************************************)
(* parse_result_file                                                       *)
(***************************************************************************)
\* re.match(r"\d{4}-\d{2}-\d{2}", line): the line starts with a date
matches_date(line) ==
    line # <<>> /\ line[1] \in {"2025-01-30", "2025-01-31", "2025-02-01",
                                "2025-02-02", "2025-02-03", "2025-02-30"}

\* "from_unixtime" in line.lower()
contains_from_unixtime(line) ==
    \E k \in 1..Len(line) : line[k] \in {"from_unixtime(PARTITION_DESCRIPTION)"}

\* "partition_description" in line.lower()
contains_partition_description(line) ==
    \E k \in 1..Len(line) :
        line[k] \in {"from_unixtime(PARTITION_DESCRIPTION)", "PARTITION_DESCRIPTION"}

\* a dict, in insertion order, is a sequence of [name, data] entries
dict_keys(d) == [k \in 1..Len(d) |-> d[k]["name"]]

\* d[name] = data: a key already present keeps its place
dict_set(d, name, data) ==
    IF \E k \in 1..Len(d) : d[k]["name"] = name
    THEN [k \in 1..Len(d) |->
             IF d[k]["name"] = name THEN [name |-> name, data |-> data] ELSE d[k]]
    ELSE Append(d, [name |-> name, data |-> data])

\* the tuple appended to current_data for a data line of at least 4 tokens
data_tuple(parts) ==
    <<<<parts[1], parts[2]>>, parts[3], parts[4],
      IF Len(parts) > 4 THEN parts[5] ELSE "0">>

\* "if current_table and current_data": the previous table is saved
save_previous(td, current_table, current_data) ==
    IF current_table # None /\ current_data # <<>>
    THEN dict_set(td, current_table, current_data)
    ELSE td

\* current_data after the save of the previous table at a non-date line
data_after_save(current_table, current_data) ==
    IF current_table # None /\ current_data # <<>> THEN <<>> ELSE current_data

\* the while loop of parse_result_file at line i (1-based), then the save
\* of the last table; current_table None is the empty line
RECURSIVE parse_loop(_, _, _, _, _)
parse_loop(ls, i, td, current_table, current_data) ==
    IF i > Len(ls) THEN save_previous(td, current_table, current_data)
    ELSE LET line == ls[i] IN
         IF line = <<>> THEN parse_loop(ls, i + 1, td, current_table, current_data)
         ELSE IF ~matches_date(line)
         THEN LET td2 == save_previous(td, current_table, current_data)
                  cd2 == data_after_save(current_table, current_data)
              IN  IF contains_from_unixtime(line) \/ contains_partition_description(line)
                  THEN parse_loop(ls, i + 1, td2, current_table, cd2)
                  ELSE IF i + 1 <= Len(ls) /\ contains_from_unixtime(ls[i + 1])
                       THEN parse_loop(ls, i + 2, td2, line, cd2)
                       ELSE parse_loop(ls, i + 1, td2, line, cd2)
         ELSE IF Len(line) >= 4
              THEN parse_loop(ls, i + 1, td, current_table,
                              Append(current_data, data_tuple(line)))
              ELSE parse_loop(ls, i + 1, td, current_table, current_data)

parse_result_file(ls) == parse_loop(ls, 1, <<>>, None, <<>>)

(***************************************************************************)
(* main                                                                    *)
(***************************************************************************)
\* main without its check for an empty result
no_table_data_unchecked(td) == FALSE

\* "if not tables_data": nothing was parsed
no_table_data(td) == td = <<>>

\* cmd.strip().startswith("ALTER TABLE")
is_alter_table(cmd) == cmd["head"] = "ALTER TABLE"

\* the commands main writes for one table
written_commands(cmds) == SelectSeq(cmds, is_alter_table)

(***************************************************************************)
(* Inputs                                                                  *)
(***************************************************************************)
SeqsUpTo(S, n) == UNION {[1..k -> S] : k \in 0..n}

\* date-time strings that parse: five days across a month end, two of them
\* also at noon
InputDateStrings ==
    {<<"2025-01-30", "00:00:00">>, <<"2025-01-31", "00:00:00">>,
     <<"2025-01-31", "12:00:00">>, <<"2025-02-01", "00:00:00">>,
     <<"2025-02-01", "12:00:00">>, <<"2025-02-02", "00:00:00">>,
     <<"2025-02-03", "00:00:00">>}

InputDates == {strptime(s)[1] : s \in InputDateStrings}

\* rows every field of which converts
GoodRows == {<<s, u, "1", "0">> : s \in InputDateStrings, u \in {"100", "0200"}}

\* rows with one field that does not convert: the date (30 February), the
\* unix timestamp, the ordinal, the row count
BadRows ==
    {<<<<"2025-02-30", "00:00:00">>, "100", "1", "0">>,
     <<<<"2025-01-31", "00:00:00">>, "1x", "1", "0">>,
     <<<<"2025-02-01", "00:00:00">>, "100", "1.5", "0">>,
     <<<<"2025-02-02", "00:00:00">>, "100", "1", "n/a">>}

InputRows == GoodRows \cup BadRows

\* rows that differ in their date only
PlainRows == {<<s, "100", "1", "0">> : s \in InputDateStrings}

IsAscending(dates) == \A i \in 1..Len(dates) - 1 : dates[i] <= dates[i + 1]

AscendingLists == {ds \in SeqsUpTo(InputDates, MaxDates) : IsAscending(ds)}

\* lines of result.txt, as line.split() sees them: an empty line, two table
\* names, the column header, a header without from_unixtime, data lines of
\* 5, 4 and 3 tokens
TableA == <<"table_a">>

TableB == <<"table_b">>

HeaderLine ==
    <<"from_unixtime(PARTITION_DESCRIPTION)", "PARTITION_DESCRIPTION",
      "PARTITION_ORDINAL_POSITION", "TABLE_ROWS">>

ShortHeaderLine == <<"PARTITION_DESCRIPTION", "TABLE_ROWS">>

InputLines ==
    {<<>>, TableA, TableB, HeaderLine, ShortHeaderLine,
     <<"2025-01-30", "00:00:00", "100", "1", "0">>,
     <<"2025-02-01", "00:00:00", "0200", "1">>,
     <<"2025-01-31", "00:00:00", "100">>}

(***************************************************************************)
(* One table, as the body of main's loop handles it: Spec                  *)
(***************************************************************************)
TheTable == TableA

NoMain ==
    /\ file_state = "ok"
    /\ lines = <<>>
    /\ tables_data = <<>>
    /\ next_table = 0
    /\ processed = <<>>
    /\ exit_status = -1

Init ==
    /\ pc = "new"
    /\ raw \in SeqsUpTo(InputRows, MaxRows)
    /\ partitions = <<>>
    /\ missing_dates = <<>>
    /\ arg = <<>>
    /\ groups = <<>>
    /\ picks = <<>>
    /\ sql_commands = <<>>
    /\ tables_with_issues = 0
    /\ all_sql_commands = <<>>
    /\ NoMain

\* checker = PartitionChecker(table_name, partition_data, analysis_file)
Construct ==
    /\ pc = "new"
    /\ partitions' = PartitionChecker(raw)
    /\ pc' = "built"
    /\ UNCHANGED <<raw, missing_dates, arg, groups, picks, sql_commands,
                   tables_with_issues, all_sql_commands>>
    /\ UNCHANGED main_vars

\* missing_dates = checker.display_report()
DisplayReport ==
    /\ pc = "built"
    /\ missing_dates' = find_missing_dates(partitions)
    /\ pc' = "reported"
    /\ UNCHANGED <<raw, partitions, arg, groups, picks, sql_commands,
                   tables_with_issues, all_sql_commands>>
    /\ UNCHANGED main_vars

\* the call generate_reorganize_commands(dates) with its local values
Generate(dates) ==
    /\ arg' = dates
    /\ groups' = IF dates = <<>> THEN <<>> ELSE group_consecutive_dates(dates)
    /\ picks' = IF dates = <<>> THEN <<>>
                ELSE find_surrounding(partitions, group_consecutive_dates(dates))
    /\ sql_commands' = generate_reorganize_commands(TheTable, partitions, dates)

\* "if missing_dates:" of main: count the table, generate and write
HandleMissing ==
    /\ pc = "reported"
    /\ IF missing_dates # <<>>
       THEN /\ tables_with_issues' = tables_with_issues + 1
            /\ Generate(missing_dates)
            /\ all_sql_commands' = all_sql_commands \o written_commands(sql_commands')
       ELSE UNCHANGED <<arg, groups, picks, sql_commands, tables_with_issues,
                        all_sql_commands>>
    /\ pc' = "done"
    /\ UNCHANGED <<raw, partitions, missing_dates>>
    /\ UNCHANGED main_vars

Next == Construct \/ DisplayReport \/ HandleMissing

Spec == Init /\ [][Next]_vars

(***************************************************************************)
(* A built checker called with any ascending list of dates: SpecDates      *)
(***************************************************************************)
InitDates ==
    /\ pc = "built"
    /\ raw = <<>>
    /\ partitions \in {PartitionChecker(r) : r \in SeqsUpTo(PlainRows, MaxRows)}
    /\ missing_dates = <<>>
    /\ arg \in AscendingLists
    /\ groups = <<>>
    /\ picks = <<>>
    /\ sql_commands = <<>>
    /\ tables_with_issues = 0
    /\ all_sql_commands = <<>>
    /\ NoMain

\* checker.group_consecutive_dates(arg)
GroupDates ==
    /\ pc = "built"
    /\ groups' = group_consecutive_dates(arg)
    /\ pc' = "grouped"
    /\ UNCHANGED <<raw, partitions, missing_dates, arg, picks, sql_commands,
                   tables_with_issues, all_sql_commands>>
    /\ UNCHANGED main_vars

\* checker.generate_reorganize_commands(arg)
GenerateCommands ==
    /\ pc = "built"
    /\ Generate(arg)
    /\ pc' = "generated"
    /\ UNCHANGED <<raw, partitions, missing_dates, tables_with_issues, all_sql_commands>>
    /\ UNCHANGED main_vars

NextDates == GroupDates \/ GenerateCommands

SpecDates == InitDates /\ [][NextDates]_vars

(***************************************************************************)
(* The whole run on a file: SpecMain                                       *)
(***************************************************************************)
InitMain ==
    /\ pc = "start"
    /\ \/ file_state = "ok" /\ lines \in SeqsUpTo(InputLines, MaxLines)
       \/ file_state \in {"missing", "unreadable"} /\ lines = <<>>
    /\ tables_data = <<>>
    /\ next_table = 0
    /\ processed = <<>>
    /\ exit_status = -1
    /\ tables_with_issues = 0
    /\ all_sql_commands = <<>>
    /\ raw = <<>>
    /\ partitions = <<>>
    /\ missing_dates = <<>>
    /\ arg = <<>>
    /\ groups = <<>>
    /\ picks = <<>>
    /\ sql_commands = <<>>

\* tables_data = parse_result_file(input_filename): open() or the read
\* raises and the handler exits with 1, or the lines are parsed
ParseFile ==
    /\ pc = "start"
    /\ IF file_state # "ok"
       THEN /\ exit_status' = 1
            /\ pc' = "exit"
            /\ UNCHANGED tables_data
       ELSE /\ tables_data' = parse_result_file(lines)
            /\ pc' = "parsed"
            /\ UNCHANGED exit_status
    /\ UNCHANGED <<file_state, lines, next_table, processed, tables_with_issues,
                   all_sql_commands>>
    /\ UNCHANGED checker_vars

\* "if not tables_data: ... sys.exit(1)", else the output files are opened
\* and the loop over tables_data.items() starts
CheckTables ==
    /\ pc = "parsed"
    /\ IF no_table_data(tables_data)
       THEN /\ exit_status' = 1
            /\ pc' = "exit"
            /\ UNCHANGED next_table
       ELSE /\ next_table' = 1
            /\ pc' = "loop"
            /\ UNCHANGED exit_status
    /\ UNCHANGED <<file_state, lines, tables_data, processed, tables_with_issues,
                   all_sql_commands>>
    /\ UNCHANGED checker_vars

\* one pass of "for table_name, partition_data in tables_data.items()"
ProcessTable ==
    /\ pc = "loop"
    /\ next_table <= Len(tables_data)
    /\ LET table_name     == tables_data[next_table]["name"]
           partition_data == tables_data[next_table]["data"]
           ps             == PartitionChecker(partition_data)
           missing        == find_missing_dates(ps)
           cmds           == generate_reorganize_commands(table_name, ps, missing)
       IN  IF partition_data = <<>>
           THEN UNCHANGED <<processed, tables_with_issues, all_sql_commands>>
           ELSE /\ processed' = Append(processed, table_name)
                /\ IF missing # <<>>
                   THEN /\ tables_with_issues' = tables_with_issues + 1
                        /\ all_sql_commands' = all_sql_commands \o written_commands(cmds)
                   ELSE UNCHANGED <<tables_with_issues, all_sql_commands>>
    /\ next_table' = next_table + 1
    /\ UNCHANGED <<pc, file_state, lines, tables_data, exit_status>>
    /\ UNCHANGED checker_vars

\* the loop is over: summary, and the process ends with status 0
Finish ==
    /\ pc = "loop"
    /\ next_table > Len(tables_data)
    /\ exit_status' = 0
    /\ pc' = "exit"
    /\ UNCHANGED <<file_state, lines, tables_data, next_table, processed,
                   tables_with_issues, all_sql_commands>>
    /\ UNCHANGED checker_vars

NextMain == ParseFile \/ CheckTables \/ ProcessTable \/ Finish

SpecMain == InitMain /\ [][NextMain]_vars

(***************************************************************************)
(* Properties                                                              *)
(***************************************************************************)
Range(f) == {f[k] : k \in DOMAIN f}

Last(seq) == seq[Len(seq)]

RECURSIVE Flatten(_)
Flatten(ss) == IF ss = <<>> THEN <<>> ELSE ss[1] \o Flatten(Tail(ss))

Occurrences(seq, x) == Cardinality({k \in 1..Len(seq) : seq[k] = x})

IsStrictlyAscending(dates) == \A i \in 1..Len(dates) - 1 : dates[i] < dates[i + 1]

PartitionDates == {partitions[k]["date"] : k \in 1..Len(partitions)}

PartitionDays == {DayOf(d) : d \in PartitionDates}

\* the dates one, two, ... days after a partition and before the next one
SteppedDates ==
    {d \in {partitions[i]["date"] + n * OneDay :
                i \in 1..Len(partitions) - 1, n \in 1..5} :
        \E i \in 1..Len(partitions) - 1 :
            /\ d < partitions[i + 1]["date"]
            /\ \E n \in 1..5 : d = partitions[i]["date"] + n * OneDay}

\* there is a partition on every calendar day from the earliest to the latest
EveryDayHasPartition ==
    \A i \in 1..Len(partitions) - 1 :
        DayOf(partitions[i + 1]["date"]) - DayOf(partitions[i]["date"]) <= 1

\* C1 (as claimed): find_missing_dates returns, strictly ascending, exactly
\* the dates stepped day by day from each partition up to the next one; it
\* returns nothing for fewer than 2 partitions and for a table with a
\* partition on every calendar day of its range; no returned date falls on
\* a day that has a partition.
C1_missing_dates_are_days_without_partition ==
    pc \in {"reported", "done"} =>
        /\ IsStrictlyAscending(missing_dates)
        /\ Range(missing_dates) = SteppedDates
        /\ (Len(partitions) < 2 => missing_dates = <<>>)
        /\ (EveryDayHasPartition => missing_dates = <<>>)
        /\ \A k \in 1..Len(missing_dates) : DayOf(missing_dates[k]) \notin PartitionDays

\* a row every field of which converts
RowConverts(row) ==
    /\ strptime(row[1]) # None
    /\ int(row[2]) # None
    /\ int(row[3]) # None
    /\ int(row[4]) # None

ConvertedRow(row) ==
    [date |-> strptime(row[1])[1], unix_ts |-> int(row[2])[1],
     ordinal |-> int(row[3])[1], rows |-> int(row[4])[1]]

ConvertingRows(rows) == SelectSeq(rows, RowConverts)

\* C9: the construction ends with a checker for every list of rows; the
\* rows that do not convert are dropped, every other row is kept exactly
\* once, the records are sorted ascending by date and equal those built
\* from the list without the rows that do not convert.
C9_init_keeps_exactly_the_converting_rows ==
    pc # "new" =>
        /\ Len(partitions) = Len(ConvertingRows(raw))
        /\ \A k \in 1..Len(raw) :
              RowConverts(raw[k]) =>
                  Occurrences(partitions, ConvertedRow(raw[k]))
                      = Cardinality({j \in 1..Len(raw) :
                            RowConverts(raw[j]) /\ ConvertedRow(raw[j]) = ConvertedRow(raw[k])})
        /\ \A i \in 1..Len(partitions) - 1 :
              partitions[i]["date"] <= partitions[i + 1]["date"]
        /\ partitions = PartitionChecker(ConvertingRows(raw))

C9_witness ==
    /\ pc = "built"
    /\ Len(raw) = 3
    /\ Len(partitions) = 2
    /\ strptime(raw[1][1]) # None
    /\ strptime(raw[2][1]) = None
    /\ strptime(raw[3][1]) # None
    /\ strptime(raw[3][1])[1] < strptime(raw[1][1])[1]

\* the month and day of the calendar day of a datetime
MonthDay(date) ==
    CHOOSE md \in (1..12) \X (1..31) :
        /\ md[2] <= DaysInMonth(md[1])
        /\ DaysBeforeMonth(md[1]) + md[2] - 1 = DayOf(date)

\* p + YYYYMMDD
ExpectedName(date) == <<"p", 20250000 + MonthDay(date)[1] * 100 + MonthDay(date)[2]>>

\* the groups that have a partition on both sides, in order
RECURSIVE KeptFrom(_)
KeptFrom(k) ==
    IF k > Len(picks) THEN <<>>
    ELSE (IF picks[k]["before"] # None /\ picks[k]["after"] # None THEN <<k>> ELSE <<>>)
         \o KeptFrom(k + 1)

Kept == KeptFrom(1)

\* C4: a command names the after-partition as the partition reorganized,
\* has one PARTITION line per missing date of its group, in order, named
\* p + YYYYMMDD of the date and bounded by the date's own timestamp, and a
\* last line that recreates the after-partition under the same name with
\* the unix timestamp of its input row.
C4_command_lists_group_then_after_partition ==
    pc = "done" =>
        /\ Len(sql_commands) = Len(Kept)
        /\ \A j \in 1..Len(sql_commands) :
              LET cmd   == sql_commands[j]
                  group == groups[Kept[j]]
                  after == picks[Kept[j]]["after"][1]
              IN  /\ cmd["reorganize"] = ExpectedName(after["date"])
                  /\ Len(cmd["into"]) = Len(group) + 1
                  /\ \A i \in 1..Len(group) :
                        /\ cmd["into"][i]["name"] = ExpectedName(group[i])
                        /\ cmd["into"][i]["less_than"] = 1735689600 + group[i]
                  /\ Last(cmd["into"])["name"] = cmd["reorganize"]
                  /\ Last(cmd["into"])["less_than"] = after["unix_ts"]
                  /\ \E k \in 1..Len(raw) :
                        /\ RowConverts(raw[k])
                        /\ strptime(raw[k][1])[1] = after["date"]
                        /\ int(raw[k][2])[1] = Last(cmd["into"])["less_than"]
                        /\ DateFields(raw[k][1][1])[1] * 10000
                             + DateFields(raw[k][1][1])[2] * 100
                             + DateFields(raw[k][1][1])[3] = cmd["reorganize"][2]

C4_witness ==
    /\ pc = "done"
    /\ Len(sql_commands) = 1
    /\ Len(sql_commands[1]["into"]) = 3
    /\ picks[1]["before"][1]["unix_ts"] # picks[1]["after"][1]["unix_ts"]
    /\ sql_commands[1]["reorganize"] = <<"p", 20250202>>

\* the lines of the commands, the last line of each left out, that are
\* bounded by the timestamp of a date
LinesFor(date) ==
    {<<j, i>> \in (1..Len(sql_commands)) \X (1..MaxRows * 5) :
        /\ i < Len(sql_commands[j]["into"])
        /\ sql_commands[j]["into"][i]["less_than"] = timestamp(date)}

\* C10: with the list find_missing_dates returned, every group has a
\* partition on both sides, there is one command per group, every missing
\* date is a PARTITION line of exactly one command, and a table counted in
\* tables_with_issues has at least one ALTER TABLE statement written.
C10_no_group_of_found_dates_is_dropped ==
    (pc = "done" /\ missing_dates # <<>>) =>
        /\ arg = missing_dates
        /\ groups # <<>>
        /\ \A k \in 1..Len(groups) :
              picks[k]["before"] # None /\ picks[k]["after"] # None
        /\ Len(sql_commands) = Len(groups)
        /\ \A k \in 1..Len(missing_dates) :
              Cardinality(LinesFor(missing_dates[k])) = 1
        /\ tables_with_issues = 1
        /\ Len(all_sql_commands) >= 1
        /\ \A j \in 1..Len(all_sql_commands) : all_sql_commands[j]["head"] = "ALTER TABLE"

C10_witness ==
    /\ pc = "done"
    /\ Len(groups) = 2
    /\ Len(all_sql_commands) = 2
    /\ tables_with_issues = 1

\* C2: the groups of an ascending list concatenate to the list, every date
\* in a group is exactly one day after the one before it, no group starts
\* exactly one day after the end of the group before it, and the empty
\* list has no groups.
C2_groups_are_maximal_runs_of_consecutive_days ==
    pc = "grouped" =>
        /\ Flatten(groups) = arg
        /\ \A k \in 1..Len(groups) :
              /\ groups[k] # <<>>
              /\ \A i \in 1..Len(groups[k]) - 1 :
                    groups[k][i + 1] = groups[k][i] + OneDay
        /\ \A k \in 1..Len(groups) - 1 :
              groups[k + 1][1] # Last(groups[k]) + OneDay
        /\ (arg = <<>> => groups = <<>>)

C2_witness ==
    /\ pc = "grouped"
    /\ Len(arg) = 3
    /\ Len(groups) = 2
    /\ Len(groups[1]) = 2

DatesBefore(date) == {d \in PartitionDates : d < date}

DatesAfter(date) == {d \in PartitionDates : d > date}

Max(S) == CHOOSE x \in S : \A y \in S : y <= x

Min(S) == CHOOSE x \in S : \A y \in S : x <= y

\* C3: a group gets a command only if a partition lies strictly before its
\* first date and a partition lies strictly after its last date; the
\* partitions taken are the latest one before and the earliest one after;
\* the commands are in group order.
C3_command_only_between_two_partitions ==
    pc = "generated" =>
        /\ Flatten(groups) = arg
        /\ Len(picks) = Len(groups)
        /\ \A k \in 1..Len(groups) :
              LET start_date == groups[k][1]
                  end_date   == Last(groups[k])
              IN  /\ (picks[k]["before"] # None) = (DatesBefore(start_date) # {})
                  /\ (picks[k]["after"] # None) = (DatesAfter(end_date) # {})
                  /\ picks[k]["before"] # None =>
                        /\ picks[k]["before"][1] \in Range(partitions)
                        /\ picks[k]["before"][1]["date"] = Max(DatesBefore(start_date))
                  /\ picks[k]["after"] # None =>
                        /\ picks[k]["after"][1] \in Range(partitions)
                        /\ picks[k]["after"][1]["date"] = Min(DatesAfter(end_date))
        /\ Len(sql_commands) = Len(Kept)
        /\ \A j \in 1..Len(sql_commands) :
              LET cmd   == sql_commands[j]
                  group == groups[Kept[j]]
              IN  /\ DatesBefore(group[1]) # {}
                  /\ DatesAfter(Last(group)) # {}
                  /\ cmd["reorganize"] = ExpectedName(Min(DatesAfter(Last(group))))
                  /\ Len(cmd["into"]) = Len(group) + 1
                  /\ \A i \in 1..Len(group) :
                        cmd["into"][i]["less_than"] = timestamp(group[i])

C3_witness ==
    /\ pc = "generated"
    /\ Len(groups) = 2
    /\ Len(sql_commands) = 1
    /\ picks[1]["before"] = None
    /\ Cardinality(DatesBefore(groups[2][1])) = 2
    /\ Len(partitions) = 3

IsHeaderLine(line) ==
    /\ line # <<>>
    /\ ~matches_date(line)
    /\ contains_from_unixtime(line) \/ contains_partition_description(line)

IsTableNameLine(line) == line # <<>> /\ ~matches_date(line) /\ ~IsHeaderLine(line)

IsDataLine(line) == matches_date(line) /\ Len(line) >= 4

RemoveAt(seq, k) == SubSeq(seq, 1, k - 1) \o SubSeq(seq, k + 1, Len(seq))

\* C6 (as claimed): a header line is skipped wherever it is: the mapping
\* parsed from the file is the one parsed from the file without that line.
C6_header_line_changes_nothing ==
    pc = "parsed" =>
        \A k \in 1..Len(lines) :
            IsHeaderLine(lines[k]) => tables_data = parse_result_file(RemoveAt(lines, k))

NamePositions == {k \in 1..Len(lines) : IsTableNameLine(lines[k])}

\* the end of the block of the table named at line k: the line before the
\* next table name, or the last line
BlockEnd(k) ==
    IF \E n \in NamePositions : n > k
    THEN Min({n \in NamePositions : n > k}) - 1
    ELSE Len(lines)

RECURSIVE DataTuples(_)
DataTuples(ls) ==
    IF ls = <<>> THEN <<>>
    ELSE (IF IsDataLine(ls[1]) THEN <<data_tuple(ls[1])>> ELSE <<>>) \o DataTuples(Tail(ls))

\* C7 (as claimed): with distinct table names and header lines only right
\* after a table name, every table of the mapping holds exactly the data
\* lines between its name and the next table name, in file order.
C7_table_holds_only_the_data_lines_of_its_block ==
    (/\ pc = "parsed"
     /\ \A i, j \in NamePositions : i # j => lines[i] # lines[j]
     /\ \A k \in 1..Len(lines) :
           IsHeaderLine(lines[k]) => (k > 1 /\ IsTableNameLine(lines[k - 1])))
    => \A e \in 1..Len(tables_data) :
           \E k \in NamePositions :
               /\ lines[k] = tables_data[e]["name"]
               /\ tables_data[e]["data"] = DataTuples(SubSeq(lines, k + 1, BlockEnd(k)))

FirstPosition(name) == Min({k \in 1..Len(lines) : lines[k] = name})

\* C8 (as claimed): main handles the tables in the order in which their
\* names first appear in the file.
C8_tables_processed_in_order_of_first_appearance ==
    (pc = "exit" /\ exit_status = 0) =>
        \A i, j \in 1..Len(processed) :
            i < j => FirstPosition(processed[i]) < FirstPosition(processed[j])

====
